---------------------------- MODULE Spec2Model ----------------------------
(***************************************************************************)
(* A model of DependencyGraph (src/src/data/src/dependency_graph.rs): a    *)
(* dense vector of nodes, each with the lists `ins` and `out`, with the    *)
(* operations insert_dependency, keep_only and topo_sort.                  *)
(* With it, IntervalTree (src/src/data/src/interval_tree.rs), a sorted     *)
(* vector of right-open intervals, and the logger's BufferModel            *)
(* (src/src/logger/src/processor.rs).                                      *)
(*                                                                         *)
(* Vectors are TLA+ sequences: the Rust element v[i] (0-based) is the      *)
(* sequence element v[i + 1].  An Option<usize> is a sequence of length    *)
(* at most one (<<>> is None, <<x>> is Some(x)).  A panic is an outcome of *)
(* its own: pc = "panic".                                                  *)
(***************************************************************************)
EXTENDS Integers, Sequences, FiniteSets, TLC

\* The largest index passed to any call, and the largest number of edges the
\* graph holds at a time, under Spec and SortSpec.
MaxIx == 2
MaxEdges == 2

\* The same two bounds under BuiltSpec.
WideIx == 3
WideEdges == 3

\* The same two bounds under FewSpec and HistorySpec.
FewIx == 1
FewEdges == 2

\* Under SliceSpec: the largest length of a slice passed to topo_sort, and the
\* largest number of edges (the indices are those of FewSpec).
MaxSlice == 3
SliceEdges == 1

\* Under TreeSpec: usize::MAX, for a word narrowed so that its largest value is
\* one the model reaches, and the largest item_count at which insert is called.
UsizeMax == 7
MaxItems == 3

\* Under BufferSpec: the largest number of entries submitted.
MaxEntries == 4

VARIABLES
    nodes,        \* DependencyGraph.nodes : Vec<Node>
    pc,           \* "ready" (no call running), "loop" (inside topo_sort's loop), "panic"
    op,           \* the call made last: "new", "insert_dependency", "keep_only", "topo_sort",
                  \* "unchecked_keep_only", "unchecked_topo_sort"
    ixes,         \* the slice of the last keep_only / topo_sort, reverse sorted, or the
                  \* slice of the last unchecked call, as it was handed in
    work,         \* unchecked_topo_sort's local `nodes` (the restricted, grown clone)
    orphans,      \* unchecked_topo_sort's local `orphans`     : BTreeSet<usize>
    non_orphans,  \* unchecked_topo_sort's local `non_orphans` : BTreeSet<usize>
    sorted,       \* unchecked_topo_sort's local `sorted`      : Vec<usize>
    edge,         \* <<first, second>> of the last call, when it was insert_dependency
    largest,      \* history: the largest index passed to insert_dependency so far (-1: none)
    seen,         \* history: <<slice, result, calls>> of a topo_sort call that
                  \* returned since the graph was last changed, with the number
                  \* of topo_sort calls made after it (2: two or more), or None
    vec,          \* IntervalTree.vec : Vec<RightOpenInterval>
    item_count,   \* IntervalTree.item_count : usize
    out,          \* what the last take_first_item / take_last_item returned
    held,         \* history: the values inserted into the tree and not yet taken
    overflow_checks,  \* the build: TRUE when arithmetic overflow panics (debug),
                      \* FALSE when it wraps (release)
    buffer,       \* BufferModel.buffer : Vec<Input>
    auto_flush,   \* BufferModel.auto_flush : bool
    next,         \* BufferModel.next, as the entries submitted to it, in order
    submitted     \* history: the entries submitted to the BufferModel, in order

\* The state of the DependencyGraph and of a running sort.
graph == <<nodes, ixes, work, orphans, non_orphans, sorted, edge, largest, seen>>

\* The state of the IntervalTree.
tree == <<vec, item_count, out, held, overflow_checks>>

\* The state of the logger's BufferModel.
logger == <<buffer, auto_flush, next, submitted>>

vars == <<nodes, pc, op, ixes, work, orphans, non_orphans, sorted, edge, largest,
          seen, vec, item_count, out, held, overflow_checks, buffer, auto_flush,
          next, submitted>>

---------------------------------------------------------------------------
\* Vectors, options and ordered sets.

None == <<>>

Some(x) == <<x>>

MinOf(S) == CHOOSE x \in S : \A y \in S : x <= y

MaxOf(S) == CHOOSE x \in S : \A y \in S : y <= x

\* Vec::pop: the last element (None on an empty vector) and the rest.
Pop(v) ==
    IF v = <<>> THEN [item |-> None, rest |-> <<>>]
    ELSE [item |-> Some(v[Len(v)]), rest |-> SubSeq(v, 1, Len(v) - 1)]

\* Vec::remove(index): removes the element at POSITION index (0-based); the
\* caller has checked index < len (Vec::remove panics otherwise).
VecRemove(v, index) ==
    SubSeq(v, 1, index) \o SubSeq(v, index + 2, Len(v))

\* The positions (1-based) of v that hold item.
Positions(v, item) == {i \in 1..Len(v) : v[i] = item}

\* A bug RemoveItem could have: nothing is removed.
KeepItem(v, item) == v

\* remove_item(&item): removes the first element equal to item, if any.
RemoveItem(v, item) ==
    IF Positions(v, item) = {} THEN v
    ELSE VecRemove(v, MinOf(Positions(v, item)) - 1)

\* ixes.iter().copied().sorted().rev().collect_vec() of a duplicate-free slice
\* holding the indices S.
RECURSIVE SortedRev(_)
SortedRev(S) ==
    IF S = {} THEN <<>>
    ELSE <<MaxOf(S)>> \o SortedRev(S \ {MaxOf(S)})

\* The elements of a vector.
Range(v) == {v[i] : i \in 1..Len(v)}

\* A bug SortedRevOf could have: the slice is reversed without being sorted.
ReversedOnly(slice) == [i \in 1..Len(slice) |-> slice[Len(slice) + 1 - i]]

\* ixes.iter().copied().sorted().rev().collect_vec() of any slice: the largest
\* index comes first, as often as the slice holds it.
RECURSIVE SortedRevOf(_)
SortedRevOf(slice) ==
    IF slice = <<>> THEN <<>>
    ELSE LET max == MaxOf(Range(slice)) IN
         [i \in 1..Cardinality(Positions(slice, max)) |-> max]
             \o SortedRevOf(SelectSeq(slice, LAMBDA x : x # max))

---------------------------------------------------------------------------
\* Node and DependencyGraph.

\* Node::default()
EmptyNode == [ins |-> <<>>, out |-> <<>>]

\* DependencyGraph::new()
NewGraph == <<>>

\* A bug grow could have: the storage is resized without the test, and a
\* smaller required size shortens it.
ResizeAlways(ns, required_size) ==
    IF required_size > Len(ns)
    THEN ns \o [i \in 1..(required_size - Len(ns)) |-> EmptyNode]
    ELSE SubSeq(ns, 1, required_size)

\* DependencyGraph::grow
grow(ns, required_size) ==
    IF required_size > Len(ns)
    THEN ns \o [i \in 1..(required_size - Len(ns)) |-> EmptyNode]
    ELSE ns

\* A bug insert_dependency could have: the two pushes are swapped, `first` goes
\* to first's out list and `second` to second's ins list.
InsertSwapped(ns, first, second) ==
    LET g0 == grow(ns, 1 + (IF first >= second THEN first ELSE second))
        g1 == [g0 EXCEPT ![first + 1].out = Append(@, first)]
    IN  [g1 EXCEPT ![second + 1].ins = Append(@, second)]

\* DependencyGraph::insert_dependency
insert_dependency(ns, first, second) ==
    LET g0 == grow(ns, 1 + (IF first >= second THEN first ELSE second))
        g1 == [g0 EXCEPT ![first + 1].out = Append(@, second)]
    IN  [g1 EXCEPT ![second + 1].ins = Append(@, first)]

\* One of the two inner loops of unchecked_keep_only, on the list `todo` of the
\* node ix that was taken: `for ix2 in todo { self.nodes[ix2].<field>.remove(ix); }`
\* with field "out" for node.ins and field "ins" for node.out.  Vec::remove
\* takes a position and panics when it is not below the length.
RECURSIVE RemoveFromNeighbours(_, _, _, _)
RemoveFromNeighbours(ns, todo, field, ix) ==
    IF todo = <<>> THEN [nodes |-> ns, panic |-> FALSE]
    ELSE LET ix2 == Head(todo) IN
         IF ix2 >= Len(ns) THEN [nodes |-> ns, panic |-> TRUE]
         ELSE IF field = "out"
         THEN IF ix >= Len(ns[ix2 + 1].out) THEN [nodes |-> ns, panic |-> TRUE]
              ELSE RemoveFromNeighbours(
                       [ns EXCEPT ![ix2 + 1].out = VecRemove(@, ix)],
                       Tail(todo), field, ix)
         ELSE IF ix >= Len(ns[ix2 + 1].ins) THEN [nodes |-> ns, panic |-> TRUE]
              ELSE RemoveFromNeighbours(
                       [ns EXCEPT ![ix2 + 1].ins = VecRemove(@, ix)],
                       Tail(todo), field, ix)

\* A bug ClearNode could have: the node is taken and its neighbours' lists are
\* left as they are.
ClearOnly(ns, ix) == [nodes |-> [ns EXCEPT ![ix + 1] = EmptyNode], panic |-> FALSE]

\* The else branch of unchecked_keep_only's loop body: node ix is taken
\* (replaced by the default node) and removed from its neighbours' lists.
ClearNode(ns, ix) ==
    LET node  == ns[ix + 1]
        taken == [ns EXCEPT ![ix + 1] = EmptyNode]
        r1    == RemoveFromNeighbours(taken, node.ins, "out", ix)
    IN  IF r1.panic THEN r1
        ELSE RemoveFromNeighbours(r1.nodes, node.out, "ins", ix)

\* The loop `for ix in 0..self.nodes.len()` of unchecked_keep_only, from ix on.
RECURSIVE KeepLoop(_, _, _, _)
KeepLoop(ns, keep, next_to_keep, ix) ==
    IF ix >= Len(ns) THEN [nodes |-> ns, panic |-> FALSE]
    ELSE IF next_to_keep = Some(ix)
    THEN KeepLoop(ns, Pop(keep).rest, Pop(keep).item, ix + 1)
    ELSE LET r == ClearNode(ns, ix) IN
         IF r.panic THEN r
         ELSE KeepLoop(r.nodes, keep, next_to_keep, ix + 1)

\* DependencyGraph::unchecked_keep_only (and unchecked_kept_only, which
\* returns the graph it changed).
unchecked_keep_only(ns, rev_sorted_ixes) ==
    KeepLoop(ns, Pop(rev_sorted_ixes).rest, Pop(rev_sorted_ixes).item, 0)

\* A bug InitialOrphans could have: every index of the slice counts as orphan.
EveryIndexOrphan(ns, rev_sorted_ixes) == Range(rev_sorted_ixes)

\* The first loop of unchecked_topo_sort: the indices whose ins list is empty.
InitialOrphans(ns, rev_sorted_ixes) ==
    {ix \in Range(rev_sorted_ixes) : ns[ix + 1].ins = <<>>}

\* A bug SortStart could have: `sorted` is a buffer kept between the calls, and
\* the call does not empty it.
SortStartKeepingSorted(ns, rev_sorted_ixes) ==
    LET this     == unchecked_keep_only(ns, rev_sorted_ixes)
        max_elem == IF rev_sorted_ixes = <<>> THEN 0 ELSE Head(rev_sorted_ixes)
        grown    == grow(this.nodes, 1 + max_elem)
    IN  IF this.panic \/ \E ix \in Range(rev_sorted_ixes) : ix >= Len(grown)
        THEN [panic |-> TRUE, nodes |-> <<>>, orphans |-> {}, non_orphans |-> {},
              sorted |-> <<>>]
        ELSE [panic |-> FALSE, nodes |-> grown,
              orphans |-> InitialOrphans(grown, rev_sorted_ixes),
              non_orphans |-> Range(rev_sorted_ixes)
                                  \ InitialOrphans(grown, rev_sorted_ixes),
              sorted |-> sorted]

\* unchecked_topo_sort up to its loop: the clone is restricted and grown, and
\* the indices are split into orphans and non_orphans.  It panics when the
\* restriction does, or when an index is not below the length of `nodes`.
SortStart(ns, rev_sorted_ixes) ==
    LET this     == unchecked_keep_only(ns, rev_sorted_ixes)
        max_elem == IF rev_sorted_ixes = <<>> THEN 0 ELSE Head(rev_sorted_ixes)
        grown    == grow(this.nodes, 1 + max_elem)
    IN  IF this.panic \/ \E ix \in Range(rev_sorted_ixes) : ix >= Len(grown)
        THEN [panic |-> TRUE, nodes |-> <<>>, orphans |-> {}, non_orphans |-> {},
              sorted |-> <<>>]
        ELSE [panic |-> FALSE, nodes |-> grown,
              orphans |-> InitialOrphans(grown, rev_sorted_ixes),
              non_orphans |-> Range(rev_sorted_ixes)
                                  \ InitialOrphans(grown, rev_sorted_ixes),
              sorted |-> <<>>]

\* A bug FirstOrphan could have: the largest element is taken.
LastOrphan(set) == MaxOf(set)

\* orphans.iter().next(): the smallest element of the BTreeSet.
FirstOrphan(set) == MinOf(set)

\* A bug FirstNonOrphan could have: the largest element is taken.
LastNonOrphan(set) == MaxOf(set)

\* non_orphans.iter().next(): the smallest element of the BTreeSet.
FirstNonOrphan(set) == MinOf(set)

\* A bug TakeOrphan could have: the emitted index stays in the set.
LeaveOrphan(set, ix) == set

\* orphans.remove(&ix)
TakeOrphan(set, ix) == set \ {ix}

\* A bug Release could have: an index whose ins list becomes empty is made an
\* orphan whether or not it is a non-orphan.
RECURSIVE ReleaseAny(_, _, _, _, _)
ReleaseAny(ns, orph, non, todo, ix) ==
    IF todo = <<>> THEN [nodes |-> ns, orphans |-> orph, non_orphans |-> non]
    ELSE LET ix2 == Head(todo)
             ins == RemoveItem(ns[ix2 + 1].ins, ix)
             ns2 == [ns EXCEPT ![ix2 + 1].ins = ins]
         IN  ReleaseAny(ns2,
                        IF ins = <<>> THEN orph \cup {ix2} ELSE orph,
                        IF ins = <<>> THEN non \ {ix2} ELSE non,
                        Tail(todo), ix)

\* The loop `for ix2 in mem::take(&mut nodes[ix].out)` of unchecked_topo_sort,
\* on what is left of the list: the state is the nodes and the two sets.
RECURSIVE Release(_, _, _, _, _)
Release(ns, orph, non, todo, ix) ==
    IF todo = <<>> THEN [nodes |-> ns, orphans |-> orph, non_orphans |-> non]
    ELSE LET ix2   == Head(todo)
             ins   == RemoveItem(ns[ix2 + 1].ins, ix)
             ns2   == [ns EXCEPT ![ix2 + 1].ins = ins]
             moved == ins = <<>> /\ ix2 \in non
         IN  Release(ns2,
                     IF moved THEN orph \cup {ix2} ELSE orph,
                     IF moved THEN non \ {ix2} ELSE non,
                     Tail(todo), ix)

\* One iteration of the loop of unchecked_topo_sort, on the locals `nodes`,
\* `orphans`, `non_orphans` and `sorted`; brk says that the loop was left.
LoopBody(st) ==
    IF st.orphans = {}
    THEN IF st.non_orphans = {}
         THEN [st EXCEPT !.brk = TRUE]
         ELSE \* NON DAG
              LET ix == FirstNonOrphan(st.non_orphans) IN
              [st EXCEPT !.non_orphans = @ \ {ix}, !.orphans = @ \cup {ix}]
    ELSE LET ix == FirstOrphan(st.orphans)
             r  == Release([st.nodes EXCEPT ![ix + 1].out = <<>>],
                           TakeOrphan(st.orphans, ix), st.non_orphans,
                           st.nodes[ix + 1].out, ix)
         IN  [st EXCEPT !.sorted = Append(@, ix), !.nodes = r.nodes,
                        !.orphans = r.orphans, !.non_orphans = r.non_orphans]

\* The loop of unchecked_topo_sort, run until it is left: the value returned.
RECURSIVE RunLoop(_)
RunLoop(st) ==
    IF LoopBody(st).brk THEN st.sorted ELSE RunLoop(LoopBody(st))

\* DependencyGraph::unchecked_topo_sort
unchecked_topo_sort(ns, rev_sorted_ixes) ==
    LET start == SortStart(ns, rev_sorted_ixes) IN
    IF start.panic THEN [panic |-> TRUE, sorted |-> <<>>]
    ELSE [panic |-> FALSE,
          sorted |-> RunLoop([brk |-> FALSE, nodes |-> start.nodes,
                              orphans |-> start.orphans,
                              non_orphans |-> start.non_orphans,
                              sorted |-> start.sorted])]

\* DependencyGraph::topo_sort, of a duplicate-free slice holding the indices S.
topo_sort(ns, S) == unchecked_topo_sort(ns, SortedRev(S))

---------------------------------------------------------------------------
\* IntervalTree (src/src/data/src/interval_tree.rs).  A usize is a number of
\* 0..UsizeMax; `+`, `-`, `+=` and `-=` leaving that range panic in a build
\* with overflow checks and wrap around in a build without.

Wraps(n) == n < 0 \/ n > UsizeMax

Wrapped(n) == (n + UsizeMax + 1) % (UsizeMax + 1)

saturating_add(a, b) == IF a + b > UsizeMax THEN UsizeMax ELSE a + b

Interval(start, end) == [start |-> start, end |-> end]

RightOpenInterval(start, end) == [start |-> start, end |-> end]

\* impl From<Interval> for RightOpenInterval
FromInterval(t) == RightOpenInterval(t.start, saturating_add(t.end, 1))

cmp_close_to_value(self, value) ==
    IF self.start > value THEN "Greater"
    ELSE IF self.end < value THEN "Less"
    ELSE "Equal"

check_valid(self) == self.start < self.end

\* Vec::insert(index, element) and Vec::remove(index), for an index in range.
VecInsert(v, index, element) ==
    SubSeq(v, 1, index) \o <<element>> \o SubSeq(v, index + 1, Len(v))

VecRemoveAt(v, index) == SubSeq(v, 1, index) \o SubSeq(v, index + 2, Len(v))

Ok(index) == [ok |-> TRUE, index |-> index]

Err(index) == [ok |-> FALSE, index |-> index]

\* The results self.vec.binary_search_by(|p| p.cmp_close_to_value(value)) can
\* give.  On a vector the comparison orders (Less, then Equal, then Greater)
\* it is Ok of a matching position, or Err of the insertion point when nothing
\* matches; on any other vector the result is unspecified: Ok of some matching
\* position or Err of some position.
binary_search_by(v, value) ==
    LET rank(i) == CASE cmp_close_to_value(v[i], value) = "Less" -> 0
                     [] cmp_close_to_value(v[i], value) = "Equal" -> 1
                     [] OTHER -> 2
        matches == {i \in 1..Len(v) : rank(i) = 1}
        ordered == \A i, j \in 1..Len(v) : i < j => rank(i) <= rank(j)
        less == Cardinality({i \in 1..Len(v) : rank(i) = 0})
    IN  IF ordered
        THEN IF matches # {} THEN {Ok(i - 1) : i \in matches} ELSE {Err(less)}
        ELSE {Ok(i - 1) : i \in matches} \cup {Err(i) : i \in 0..Len(v)}

TreePanic(v, count) == [vec |-> v, item_count |-> count, panic |-> TRUE]

TreeDone(v, count) == [vec |-> v, item_count |-> count, panic |-> FALSE]

\* IntervalTree::insert(value), after the binary search gave `index`.  A panic
\* leaves the tree as it was when the panic happened.
insert(self, value, index, checks) ==
    LET v == self.vec
        at == index.index + 1
        count == Wrapped(self.item_count + 1)
        fresh == VecInsert(v, index.index, FromInterval(Interval(value, value)))
    IN  IF Wraps(self.item_count + 1) /\ checks
        THEN TreePanic(v, self.item_count)
        ELSE IF ~index.ok
        THEN IF Len(v) > index.index
             THEN IF Wraps(value + 1) /\ checks THEN TreePanic(v, count)
                  ELSE IF v[at].start = Wrapped(value + 1)
                  THEN IF Wraps(v[at].start - 1) /\ checks THEN TreePanic(v, count)
                       ELSE TreeDone([v EXCEPT ![at].start = Wrapped(@ - 1)], count)
                  ELSE TreeDone(fresh, count)
             ELSE TreeDone(fresh, count)
        ELSE IF v[at].end = value
        THEN LET joined == [v EXCEPT ![at].end = v[at + 1].end]
                 longer == IF Wraps(v[at].end + 1) /\ checks
                           THEN TreePanic(v, count)
                           ELSE TreeDone([v EXCEPT ![at].end = Wrapped(@ + 1)], count)
             IN  IF Len(v) > index.index + 1
                 THEN IF Wraps(value + 1) /\ checks THEN TreePanic(v, count)
                      ELSE IF v[at + 1].start = Wrapped(value + 1)
                      THEN TreeDone(VecRemoveAt(joined, index.index + 1), count)
                      ELSE longer
                 ELSE longer
        ELSE IF Wraps(count - 1) /\ checks THEN TreePanic(v, count)
             ELSE TreeDone(v, Wrapped(count - 1))

TookPanic(v, count) == [vec |-> v, item_count |-> count, out |-> None, panic |-> TRUE]

Took(v, count, o) == [vec |-> v, item_count |-> count, out |-> o, panic |-> FALSE]

\* IntervalTree::take_first_item()
take_first_item(self, checks) ==
    LET v == self.vec IN
    IF Len(v) = 0 THEN Took(v, self.item_count, None)
    ELSE IF Wraps(v[1].start + 1) /\ checks THEN TookPanic(v, self.item_count)
    ELSE LET shorter == [v EXCEPT ![1].start = Wrapped(@ + 1)] IN
         IF Wraps(self.item_count - 1) /\ checks
         THEN TookPanic(shorter, self.item_count)
         ELSE Took(IF ~check_valid(shorter[1]) THEN VecRemoveAt(shorter, 0)
                   ELSE shorter,
                   Wrapped(self.item_count - 1), Some(v[1].start))

\* IntervalTree::take_last_item()
take_last_item(self, checks) ==
    LET v == self.vec
        len == Len(v)
    IN
    IF len = 0 THEN Took(v, self.item_count, None)
    ELSE IF Wraps(v[len].end - 1) /\ checks THEN TookPanic(v, self.item_count)
    ELSE LET shorter == [v EXCEPT ![len].end = Wrapped(@ - 1)] IN
         IF Wraps(self.item_count - 1) /\ checks
         THEN TookPanic(shorter, self.item_count)
         ELSE Took(IF ~check_valid(shorter[len]) THEN SubSeq(shorter, 1, len - 1)
                   ELSE shorter,
                   Wrapped(self.item_count - 1), Some(shorter[len].end))

---------------------------------------------------------------------------
\* The logger's BufferModel (src/src/logger/src/processor.rs).  The processor
\* `next` is the sequence of the entries submitted to it.

\* next.submit(input)
NextSubmit(nxt, input) == Append(nxt, input)

\* BufferModel::submit(input)
submit(self, input) ==
    IF self.auto_flush
    THEN [self EXCEPT !.next = NextSubmit(@, input)]
    ELSE [self EXCEPT !.buffer = Append(@, input)]

\* The loop of flush: the entries taken out of the buffer are submitted to
\* `next` one by one, first to last.
RECURSIVE SubmitAll(_, _)
SubmitAll(nxt, inputs) ==
    IF inputs = <<>> THEN nxt
    ELSE SubmitAll(NextSubmit(nxt, Head(inputs)), Tail(inputs))

\* A bug flush could have: the entries are passed on and stay in the buffer.
FlushKeeping(self) == [self EXCEPT !.next = SubmitAll(self.next, self.buffer)]

\* BufferModel::flush(): mem::take leaves the buffer empty.
flush(self) ==
    [self EXCEPT !.buffer = <<>>, !.next = SubmitAll(self.next, self.buffer)]

\* BufferModel::flush_and_enable_auto_flush()
flush_and_enable_auto_flush(self) == [flush(self) EXCEPT !.auto_flush = TRUE]

---------------------------------------------------------------------------
\* The program.

\* The state after construction, in a build with or without overflow checks,
\* when js::check_auto_flush() gave `flag`.
Constructed(checks, flag) ==
    /\ nodes = NewGraph
    /\ pc = "ready"
    /\ op = "new"
    /\ ixes = <<>>
    /\ work = <<>>
    /\ orphans = {}
    /\ non_orphans = {}
    /\ sorted = <<>>
    /\ edge = <<>>
    /\ largest = -1
    /\ seen = None
    /\ vec = <<>>
    /\ item_count = 0
    /\ out = None
    /\ held = {}
    /\ overflow_checks = checks
    /\ buffer = <<>>
    /\ auto_flush = flag
    /\ next = <<>>
    /\ submitted = <<>>

Init == Constructed(TRUE, FALSE)

\* The number of edges the graph holds (of entries of its out lists).
RECURSIVE EdgeTotal(_)
EdgeTotal(ns) ==
    IF ns = <<>> THEN 0
    ELSE Len(Head(ns).out) + EdgeTotal(Tail(ns))

\* No sort is running: its locals do not exist.
NoSort ==
    /\ work' = <<>>
    /\ orphans' = {}
    /\ non_orphans' = {}
    /\ sorted' = <<>>

\* graph.insert_dependency(first, second)
InsertDependency(first, second) ==
    /\ pc = "ready"
    /\ nodes' = insert_dependency(nodes, first, second)
    /\ op' = "insert_dependency"
    /\ ixes' = <<>>
    /\ edge' = <<first, second>>
    /\ largest' = MaxOf({largest, first, second})
    /\ seen' = None
    /\ NoSort
    /\ UNCHANGED <<pc, tree, logger>>

\* graph.keep_only(ixes), for a duplicate-free slice holding the indices S.  A
\* panic leaves the graph as it was when the panic happened.
KeepOnly(S) ==
    /\ pc = "ready"
    /\ LET r == unchecked_keep_only(nodes, SortedRev(S)) IN
           /\ nodes' = r.nodes
           /\ pc' = IF r.panic THEN "panic" ELSE "ready"
    /\ ixes' = SortedRev(S)
    /\ op' = "keep_only"
    /\ edge' = <<>>
    /\ seen' = None
    /\ NoSort
    /\ UNCHANGED <<largest, tree, logger>>

\* A bug SelfAfterSort could have: the graph itself is restricted and grown.
SortedInPlace(self, this) == this

\* `self` after unchecked_topo_sort: the method takes &self, and what it
\* restricts and grows is `this`, a clone.
SelfAfterSort(self, this) == self

\* graph.topo_sort(ixes), for any slice (in any order, an index more than once),
\* up to the start of the loop of unchecked_topo_sort.
TopoSortSlice(slice) ==
    /\ pc = "ready"
    /\ LET start == SortStart(nodes, SortedRevOf(slice)) IN
           /\ pc' = IF start.panic THEN "panic" ELSE "loop"
           /\ work' = start.nodes
           /\ orphans' = start.orphans
           /\ non_orphans' = start.non_orphans
           /\ sorted' = start.sorted
           /\ nodes' = SelfAfterSort(nodes, start.nodes)
    /\ ixes' = SortedRevOf(slice)
    /\ op' = "topo_sort"
    /\ edge' = <<>>
    /\ seen' = IF seen = None THEN None
               ELSE [seen EXCEPT ![3] = IF @ = 0 THEN 1 ELSE 2]
    /\ UNCHANGED <<largest, tree, logger>>

\* graph.topo_sort(ixes), for a duplicate-free slice holding the indices S.
TopoSort(S) == TopoSortSlice(SortedRev(S))

\* One iteration of the loop of unchecked_topo_sort.  When the loop is left the
\* call returns `sorted`: pc = "ready" with op = "topo_sort".
Loop ==
    /\ pc = "loop"
    /\ LET st == LoopBody([brk |-> FALSE, nodes |-> work, orphans |-> orphans,
                           non_orphans |-> non_orphans, sorted |-> sorted])
       IN  /\ pc' = IF st.brk THEN "ready" ELSE "loop"
           /\ work' = st.nodes
           /\ orphans' = st.orphans
           /\ non_orphans' = st.non_orphans
           /\ sorted' = st.sorted
    /\ UNCHANGED <<nodes, op, ixes, edge, largest, seen, tree, logger>>

\* graph.unchecked_keep_only(rev_sorted_ixes), for a slice in any order: the
\* slice is used as it is handed in.
UncheckedKeepOnly(rev_sorted_ixes) ==
    /\ pc = "ready"
    /\ LET r == unchecked_keep_only(nodes, rev_sorted_ixes) IN
           /\ nodes' = r.nodes
           /\ pc' = IF r.panic THEN "panic" ELSE "ready"
    /\ ixes' = rev_sorted_ixes
    /\ op' = "unchecked_keep_only"
    /\ edge' = <<>>
    /\ seen' = None
    /\ NoSort
    /\ UNCHANGED <<largest, tree, logger>>

\* graph.unchecked_topo_sort(rev_sorted_ixes), for a slice in any order, up to
\* the start of the loop.
UncheckedTopoSort(rev_sorted_ixes) ==
    /\ pc = "ready"
    /\ LET start == SortStart(nodes, rev_sorted_ixes) IN
           /\ pc' = IF start.panic THEN "panic" ELSE "loop"
           /\ work' = start.nodes
           /\ orphans' = start.orphans
           /\ non_orphans' = start.non_orphans
           /\ sorted' = start.sorted
           /\ nodes' = SelfAfterSort(nodes, start.nodes)
    /\ ixes' = rev_sorted_ixes
    /\ op' = "unchecked_topo_sort"
    /\ edge' = <<>>
    /\ seen' = None
    /\ UNCHANGED <<largest, tree, logger>>

\* History only: the result of the topo_sort call that has just returned is
\* noted, to be compared with the results of later calls.
Remember ==
    /\ pc = "ready" /\ op = "topo_sort"
    /\ seen = None
    /\ seen' = <<ixes, sorted, 0>>
    /\ UNCHANGED <<nodes, pc, op, ixes, work, orphans, non_orphans, sorted, edge,
                   largest, tree, logger>>

\* A value of a set of values, smallest or largest.
SmallestOf(S) == CHOOSE x \in S : \A y \in S : x <= y

LargestOf(S) == CHOOSE x \in S : \A y \in S : x >= y

\* tree.insert(value)
Insert(value) ==
    /\ pc = "ready"
    /\ item_count < MaxItems
    /\ \E index \in binary_search_by(vec, value) :
           LET r == insert([vec |-> vec, item_count |-> item_count], value, index,
                           overflow_checks)
           IN  /\ vec' = r.vec
               /\ item_count' = r.item_count
               /\ pc' = IF r.panic THEN "panic" ELSE "ready"
    /\ op' = "insert"
    /\ out' = None
    /\ held' = held \cup {value}
    /\ UNCHANGED <<overflow_checks, graph, logger>>

\* tree.take_first_item()
TakeFirstItem ==
    /\ pc = "ready"
    /\ LET r == take_first_item([vec |-> vec, item_count |-> item_count],
                                overflow_checks)
       IN  /\ vec' = r.vec
           /\ item_count' = r.item_count
           /\ out' = r.out
           /\ pc' = IF r.panic THEN "panic" ELSE "ready"
    /\ op' = "take_first_item"
    /\ held' = IF held = {} THEN {} ELSE held \ {SmallestOf(held)}
    /\ UNCHANGED <<overflow_checks, graph, logger>>

\* tree.take_last_item()
TakeLastItem ==
    /\ pc = "ready"
    /\ LET r == take_last_item([vec |-> vec, item_count |-> item_count],
                               overflow_checks)
       IN  /\ vec' = r.vec
           /\ item_count' = r.item_count
           /\ out' = r.out
           /\ pc' = IF r.panic THEN "panic" ELSE "ready"
    /\ op' = "take_last_item"
    /\ held' = IF held = {} THEN {} ELSE held \ {LargestOf(held)}
    /\ UNCHANGED <<overflow_checks, graph, logger>>

BufferModel == [buffer |-> buffer, auto_flush |-> auto_flush, next |-> next]

BufferModelBecomes(self) ==
    /\ buffer' = self.buffer
    /\ auto_flush' = self.auto_flush
    /\ next' = self.next

\* model.submit(input)
Submit(input) ==
    /\ BufferModelBecomes(submit(BufferModel, input))
    /\ submitted' = Append(submitted, input)
    /\ op' = "submit"
    /\ UNCHANGED <<pc, graph, tree>>

\* model.flush()
Flush ==
    /\ BufferModelBecomes(flush(BufferModel))
    /\ op' = "flush"
    /\ UNCHANGED <<pc, submitted, graph, tree>>

\* model.flush_and_enable_auto_flush(): the closure window.showLogs runs
FlushAndEnableAutoFlush ==
    /\ BufferModelBecomes(flush_and_enable_auto_flush(BufferModel))
    /\ op' = "flush_and_enable_auto_flush"
    /\ UNCHANGED <<pc, submitted, graph, tree>>

\* The whole program: any sequence of calls.
Next ==
    \/ \E first, second \in 0..MaxIx :
           EdgeTotal(nodes) < MaxEdges /\ InsertDependency(first, second)
    \/ \E S \in SUBSET (0..MaxIx) : KeepOnly(S)
    \/ \E S \in SUBSET (0..MaxIx) : TopoSort(S)
    \/ Loop

Spec == Init /\ [][Next]_vars

\* The graphs that insert_dependency calls alone build, and their sorts.
SortNext ==
    \/ \E first, second \in 0..MaxIx :
           EdgeTotal(nodes) < MaxEdges /\ InsertDependency(first, second)
    \/ \E S \in SUBSET (0..MaxIx) : TopoSort(S)
    \/ Loop

SortSpec == Init /\ [][SortNext]_vars

\* An iteration of the loop can be taken exactly when the loop is running.
LoopEnabled == (ENABLED <<Loop>>_vars) <=> (pc = "loop")

\* topo_sort runs to completion: its loop is a plain sequential loop, every
\* iteration of which is executed.  This is WF_vars(Loop), written out with
\* pc = "loop" for ENABLED <<Loop>>_vars (LoopEnabled is an invariant).
LoopFairness == (<>[](pc = "loop")) => []<><<Loop>>_vars

FairSortSpec == SortSpec /\ LoopFairness

\* SortSpec with the wider bounds.
BuiltNext ==
    \/ \E first, second \in 0..WideIx :
           EdgeTotal(nodes) < WideEdges /\ InsertDependency(first, second)
    \/ \E S \in SUBSET (0..WideIx) : TopoSort(S)
    \/ Loop

BuiltSpec == Init /\ [][BuiltNext]_vars

\* The whole program with the narrower bounds.
FewNext ==
    \/ \E first, second \in 0..FewIx :
           EdgeTotal(nodes) < FewEdges /\ InsertDependency(first, second)
    \/ \E S \in SUBSET (0..FewIx) : KeepOnly(S)
    \/ \E S \in SUBSET (0..FewIx) : TopoSort(S)
    \/ Loop

FewSpec == Init /\ [][FewNext]_vars

\* SortSpec with the narrower bounds and the history of results.
HistoryNext ==
    \/ \E first, second \in 0..FewIx :
           EdgeTotal(nodes) < FewEdges /\ InsertDependency(first, second)
    \/ \E S \in SUBSET (0..FewIx) : TopoSort(S)
    \/ Loop
    \/ Remember

HistorySpec == Init /\ [][HistoryNext]_vars

\* The slices of at most len indices out of 0..max.
Slices(max, len) == UNION {[1..n -> 0..max] : n \in 0..len}

\* SortSpec with slices of every kind.
SliceNext ==
    \/ \E first, second \in 0..FewIx :
           EdgeTotal(nodes) < SliceEdges /\ InsertDependency(first, second)
    \/ \E slice \in Slices(FewIx, MaxSlice) : TopoSortSlice(slice)
    \/ Loop

SliceSpec == Init /\ [][SliceNext]_vars

\* The unchecked entry points, with slices of every kind.
UncheckedNext ==
    \/ \E first, second \in 0..FewIx :
           EdgeTotal(nodes) < SliceEdges /\ InsertDependency(first, second)
    \/ \E slice \in Slices(FewIx, MaxSlice) : UncheckedKeepOnly(slice)
    \/ \E slice \in Slices(FewIx, MaxSlice) : UncheckedTopoSort(slice)
    \/ Loop

UncheckedSpec == Init /\ [][UncheckedNext]_vars

\* The IntervalTree alone: any sequence of calls with any value of a usize, in
\* either build.
TreeInit == \E checks \in BOOLEAN : Constructed(checks, FALSE)

TreeNext ==
    \/ \E value \in 0..UsizeMax : Insert(value)
    \/ TakeFirstItem
    \/ TakeLastItem

TreeSpec == TreeInit /\ [][TreeNext]_vars

\* The entries submitted to the logger.
Entries == {"a", "b"}

\* The BufferModel alone: any sequence of calls, whatever
\* js::check_auto_flush() gave when the model was made.
BufferInit == \E flag \in BOOLEAN : Constructed(TRUE, flag)

BufferNext ==
    \/ \E input \in Entries : Len(submitted) < MaxEntries /\ Submit(input)
    \/ Flush
    \/ FlushAndEnableAutoFlush

BufferSpec == BufferInit /\ [][BufferNext]_vars

---------------------------------------------------------------------------
\* What the claims speak of.

\* The indices of the slice of the last keep_only / topo_sort call.
Given == Range(ixes)

\* A topo_sort call has returned; `sorted` is what it returned.
Returned == pc = "ready" /\ op = "topo_sort"

\* A keep_only call has returned.
Kept == pc = "ready" /\ op = "keep_only"

\* The number of entries of the vector v that are item.
Count(v, item) == Cardinality(Positions(v, item))

\* The recorded edges (a -> b) of the graph ns with a and b both in S.
EdgesWithin(ns, S) ==
    {e \in S \X S : e[1] < Len(ns) /\ e[2] \in Range(ns[e[1] + 1].out)}

\* The edges E form no cycle on S: every non-empty part of S has an index
\* without a prerequisite in that part.
Acyclic(E, S) ==
    \A C \in SUBSET S :
        C # {} => \E c \in C : \A d \in C : <<d, c>> \notin E

\* a comes before b in the vector v.
Before(v, a, b) ==
    \E i, j \in 1..Len(v) : i < j /\ v[i] = a /\ v[j] = b

\* The graph that records only the edges of ns with both endpoints in S.
OnlyEdgesWithin(ns, S) ==
    [i \in 1..Len(ns) |->
        IF (i - 1) \in S
        THEN [ins |-> SelectSeq(ns[i].ins, LAMBDA x : x \in S),
              out |-> SelectSeq(ns[i].out, LAMBDA x : x \in S)]
        ELSE EmptyNode]

\* The node ix of the graph ns; a node the storage does not hold yet has the
\* lists of a new node.
NodeAt(ns, ix) == IF ix < Len(ns) THEN ns[ix + 1] ELSE EmptyNode

\* The graph g after n more calls insert_dependency(a, b).
RECURSIVE InsertTimes(_, _, _, _)
InsertTimes(g, a, b, n) ==
    IF n = 0 THEN g
    ELSE InsertTimes(insert_dependency(g, a, b), a, b, n - 1)

\* The graph g after the edges of ns from the k-th pair of indices on were
\* inserted in ascending order (0 -> 0, 0 -> 1, ..., 1 -> 0, ...).
RECURSIVE InAscendingOrder(_, _, _)
InAscendingOrder(ns, g, k) ==
    LET n == Len(ns)
        a == k \div n
        b == k % n
    IN  IF k >= n * n THEN g
        ELSE InAscendingOrder(ns, InsertTimes(g, a, b, Count(ns[a + 1].out, b)),
                              k + 1)

\* The graph built from the edges of ns by insert_dependency calls made in
\* ascending order of the edges.
Reinserted(ns) == InAscendingOrder(ns, NewGraph, 0)

\* The vector v without the entries that repeat an earlier entry.
RECURSIVE FirstEntries(_)
FirstEntries(v) ==
    IF v = <<>> THEN <<>>
    ELSE LET front == FirstEntries(SubSeq(v, 1, Len(v) - 1)) IN
         IF v[Len(v)] \in Range(front) THEN front ELSE Append(front, v[Len(v)])

\* The graph ns had every insert_dependency call that repeats an earlier one
\* not been made.
WithoutRepeats(ns) ==
    [i \in 1..Len(ns) |->
        [ins |-> FirstEntries(ns[i].ins), out |-> FirstEntries(ns[i].out)]]

\* The only edge of the graph ns is the self-edge x -> x.
OnlySelfEdge(ns, x) ==
    /\ x < Len(ns)
    /\ \A ix \in 0..(Len(ns) - 1) :
           ns[ix + 1] = IF ix = x THEN [ins |-> <<x>>, out |-> <<x>>] ELSE EmptyNode

\* The step emits ix: ix is appended to the output.
Emits(ix) == pc = "loop" /\ sorted' = Append(sorted, ix)

\* The step promotes ix by force: ix moves from the non-orphans to the orphans
\* in an iteration that emits nothing.
Promotes(ix) ==
    /\ pc = "loop"
    /\ sorted' = sorted
    /\ ix \in non_orphans /\ ix \notin non_orphans'
    /\ ix \notin orphans /\ ix \in orphans'

---------------------------------------------------------------------------
\* C1: on a graph built by insert_dependency calls, when the recorded edges
\* within the sorted indices form no cycle, the sequence topo_sort returns
\* places a before b for every recorded edge (a -> b) within those indices.
C1_EdgesRespected ==
    (Returned /\ Acyclic(EdgesWithin(nodes, Given), Given))
        => \A e \in EdgesWithin(nodes, Given) : Before(sorted, e[1], e[2])

\* C2: every topo_sort call returns, and what it returns holds each index of
\* the slice exactly once and nothing else.
C2_Permutation ==
    (op = "topo_sort" /\ pc # "loop")
        => /\ pc = "ready"
           /\ Len(sorted) = Cardinality(Given)
           /\ Range(sorted) = Given

\* C3: no call of insert_dependency, keep_only or topo_sort panics.
C3_NoPanic == pc # "panic"

\* C4: the loop of topo_sort terminates: every iteration that does not leave
\* the loop emits one orphan or promotes one non-orphan, and every loop state
\* leads to the one with both sets empty.
C4_LoopTerminates ==
    /\ [][(pc = "loop" /\ (orphans # {} \/ non_orphans # {}))
            => \/ \E ix \in orphans :
                     /\ Emits(ix)
                     /\ ix \notin orphans' /\ ix \notin non_orphans'
                     /\ non_orphans' \subseteq non_orphans
                     /\ orphans' \subseteq (orphans \cup non_orphans)
               \/ \E ix \in non_orphans :
                     /\ Promotes(ix)
                     /\ non_orphans' = non_orphans \ {ix}
                     /\ orphans' = orphans \cup {ix}]_vars
    /\ (pc = "loop") ~> (pc = "loop" /\ orphans = {} /\ non_orphans = {})

\* The loop has come to its end on indices whose recorded edges form a cycle.
C4_Witness ==
    /\ pc = "loop" /\ orphans = {} /\ non_orphans = {}
    /\ Len(sorted) >= 2
    /\ ~Acyclic(EdgesWithin(nodes, Given), Given)

\* C5: topo_sort returns the same sequence as it does on the graph that
\* records only the edges with both endpoints among the sorted indices.
C5_OutsideEdgesIgnored ==
    Returned
        => LET ref == topo_sort(OnlyEdgesWithin(nodes, Given), Given)
           IN  ~ref.panic /\ sorted = ref.sorted

\* C6: every index appended to the output is the smallest of the orphan set
\* at that moment.
C6_SmallestOrphanEmitted ==
    [][(pc = "loop" /\ Len(sorted') > Len(sorted))
          => /\ orphans # {}
             /\ sorted' = Append(sorted, MinOf(orphans))]_vars

\* An index was emitted while a larger orphan was waiting.
C6_Witness ==
    /\ pc = "loop" /\ sorted # <<>>
    /\ \E ix \in orphans : ix > sorted[Len(sorted)]

\* C7: a non-orphan is promoted by force only when the orphan set is empty and
\* the non-orphan set is not, it is the smallest non-orphan, and it is the
\* next index emitted: it is then the only orphan, and the iteration that
\* finds a single orphan emits it.
C7_ForcedPromotion ==
    /\ [][\A ix \in Given :
            Promotes(ix)
                => /\ orphans = {} /\ non_orphans # {}
                   /\ ix = MinOf(non_orphans)
                   /\ orphans' = {ix} /\ pc' = "loop"]_vars
    /\ [][\A ix \in Given :
            (pc = "loop" /\ orphans = {ix}) => Emits(ix)]_vars

\* A non-orphan was promoted while a larger one stays behind.
C7_Witness ==
    /\ pc = "loop"
    /\ Cardinality(orphans) = 1 /\ non_orphans # {}
    /\ \A ix \in orphans : work[ix + 1].ins # <<>> /\ ix < MinOf(non_orphans)

\* C8: after keep_only, every node whose index is not in the slice has empty
\* lists, and no list of any node holds the index of such a node.
C8_OthersCleared ==
    Kept => \A ix \in (0..(Len(nodes) - 1)) \ Given :
                /\ nodes[ix + 1] = EmptyNode
                /\ \A i \in 1..Len(nodes) :
                       ix \notin Range(nodes[i].ins) \cup Range(nodes[i].out)

\* C9: keep_only leaves the edges between two kept nodes as they are: for a
\* and b in the slice, a.out holds b and b.ins holds a as often as before.
C9_KeptEdgesUntouched ==
    [][(pc = "ready" /\ op' = "keep_only" /\ pc' = "ready")
          => \A a, b \in Range(ixes') \cap (0..(Len(nodes) - 1)) :
                 /\ Count(nodes'[a + 1].out, b) = Count(nodes[a + 1].out, b)
                 /\ Count(nodes'[b + 1].ins, a) = Count(nodes[b + 1].ins, a)]_vars

\* C10: after any sequence of insert_dependency and keep_only calls, a.out
\* holds b as often as b.ins holds a, for all indices a and b.
C10_EdgesConsistent ==
    pc # "panic"
        => \A a, b \in 0..(Len(nodes) - 1) :
               Count(nodes[a + 1].out, b) = Count(nodes[b + 1].ins, a)

\* C11: restricting first and sorting afterwards gives what sorting directly
\* gives: every keep_only call returns, and topo_sort of the same slice
\* returns the same sequence on the graph it leaves as on the graph it found.
C11_SubsetStability ==
    [][(pc = "ready" /\ op' = "keep_only")
          => /\ pc' = "ready"
             /\ LET restricted == topo_sort(nodes', Range(ixes'))
                    direct     == topo_sort(nodes, Range(ixes'))
                IN  /\ ~restricted.panic /\ ~direct.panic
                    /\ restricted.sorted = direct.sorted]_vars

\* C12: topo_sort does not change the graph: over the whole call (its start
\* and every iteration of its loop) the nodes, their lists and the length of
\* the storage stay as they were, also for indices beyond the storage.
C12_SortReadOnly ==
    [][op' = "topo_sort" => nodes' = nodes]_vars

\* A sort has returned whose slice names an index beyond the storage, on a
\* graph with edges; the clone it worked on was grown and emptied.
C12_Witness ==
    /\ Returned
    /\ EdgeTotal(nodes) > 0
    /\ \E ix \in Given : ix >= Len(nodes)
    /\ Len(work) > Len(nodes)
    /\ EdgeTotal(work) = 0

\* C13: a topo_sort call returns the sequence that an earlier call with the
\* same slice returned, when no insert_dependency or keep_only call was made
\* since, whatever topo_sort calls were made before or between the two.
C13_Deterministic ==
    (op = "topo_sort" /\ pc # "loop" /\ seen # None /\ seen[1] = ixes)
        => /\ pc = "ready"
           /\ sorted = seen[2]

\* A call has returned that had the slice of a call made two or more calls
\* earlier, on a graph with edges.
C13_Witness ==
    /\ Returned
    /\ seen # None /\ seen[1] = ixes /\ seen[3] = 2
    /\ Len(sorted) >= 2
    /\ EdgeTotal(nodes) > 0

\* C14: insert_dependency(first, second) returns, having appended `second` at
\* the end of first's out list and `first` at the end of second's ins list;
\* every other list of every node is as it was, and no node is lost.
C14_InsertAppends ==
    [][op' = "insert_dependency"
          => /\ pc' = "ready"
             /\ Len(nodes') >= Len(nodes)
             /\ edge'[1] < Len(nodes') /\ edge'[2] < Len(nodes')
             /\ \A ix \in 0..(Len(nodes') - 1) :
                    /\ nodes'[ix + 1].out =
                           IF ix = edge'[1]
                           THEN NodeAt(nodes, ix).out \o <<edge'[2]>>
                           ELSE NodeAt(nodes, ix).out
                    /\ nodes'[ix + 1].ins =
                           IF ix = edge'[2]
                           THEN NodeAt(nodes, ix).ins \o <<edge'[1]>>
                           ELSE NodeAt(nodes, ix).ins]_vars

\* A self-edge was inserted at a node whose out list held an entry already.
C14_Witness ==
    /\ op = "insert_dependency" /\ pc = "ready"
    /\ edge[1] = edge[2]
    /\ Len(nodes[edge[1] + 1].out) = 2
    /\ Len(nodes[edge[1] + 1].ins) = 1
    /\ nodes[edge[1] + 1].out[1] # edge[1]

\* C15: the storage is dense and only grows: it holds a node for every index
\* up to the largest ever passed to insert_dependency, no call makes it
\* shorter, and keep_only and topo_sort leave its length as it is.
C15_StorageGrows ==
    /\ [](Len(nodes) >= 1 + largest)
    /\ [][Len(nodes') >= Len(nodes)]_vars
    /\ [][op' \in {"keep_only", "topo_sort"} => Len(nodes') = Len(nodes)]_vars

\* keep_only has emptied a graph whose storage holds two nodes or more.
C15_Witness ==
    /\ Kept
    /\ largest >= 1
    /\ Len(nodes) = 1 + largest
    /\ EdgeTotal(nodes) = 0
    /\ Cardinality(Given) <= 1

\* C16: on a graph without edges, topo_sort returns the indices of the slice
\* in ascending order, each once, whatever the order of the slice.
C16_EmptyGraphAscending ==
    (op = "topo_sort" /\ pc # "loop" /\ EdgeTotal(nodes) = 0)
        => /\ pc = "ready"
           /\ Range(sorted) = Given
           /\ \A i, j \in 1..Len(sorted) : i < j => sorted[i] < sorted[j]

\* A sort of two indices or more has returned on a graph without edges.
C16_Witness ==
    /\ Returned
    /\ EdgeTotal(nodes) = 0
    /\ Len(sorted) >= 2

\* C17: the sequence topo_sort returns does not depend on the order in which
\* the edges were inserted: it is the sequence returned on the graph built
\* from the same edges inserted in ascending order.
C17_InsertionOrderFree ==
    Returned
        => LET other == topo_sort(Reinserted(nodes), Given)
           IN  ~other.panic /\ sorted = other.sorted

\* C18: a repeated call insert_dependency(a, b) adds one more entry b to a.out
\* and one more entry a to b.ins, and the sequence topo_sort returns is the one
\* it returns on the graph with every edge inserted once.
C18_RepeatedEdgeHarmless ==
    /\ [][(op' = "insert_dependency" /\ edge'[1] < Len(nodes)
             /\ edge'[2] \in Range(NodeAt(nodes, edge'[1]).out))
            => /\ Count(nodes'[edge'[1] + 1].out, edge'[2])
                     = Count(nodes[edge'[1] + 1].out, edge'[2]) + 1
               /\ Count(nodes'[edge'[2] + 1].ins, edge'[1])
                     = Count(nodes[edge'[2] + 1].ins, edge'[1]) + 1]_vars
    /\ [](Returned
            => LET once == topo_sort(WithoutRepeats(nodes), Given)
               IN  ~once.panic /\ sorted = once.sorted)

\* C19: on a graph whose only edge is a self-edge x -> x, topo_sort of indices
\* that include x returns the other indices in ascending order and x last.
C19_SelfEdgeLast ==
    \A x \in Given :
        (op = "topo_sort" /\ pc # "loop" /\ OnlySelfEdge(nodes, x))
            => /\ pc = "ready"
               /\ Range(sorted) = Given
               /\ Len(sorted) = Cardinality(Given)
               /\ sorted[Len(sorted)] = x
               /\ \A i, j \in 1..(Len(sorted) - 1) : i < j => sorted[i] < sorted[j]

\* A sort has returned on such a graph with x last, after larger indices.
C19_Witness ==
    /\ Returned
    /\ Len(sorted) = 3
    /\ \E x \in Given :
           /\ OnlySelfEdge(nodes, x)
           /\ sorted[3] = x
           /\ x < sorted[1]

\* C20: a topo_sort call whose slice holds an index more than once returns,
\* and what it returns holds every index of the slice exactly once.
C20_RepeatedIndexOnce ==
    (op = "topo_sort" /\ pc # "loop" /\ Len(ixes) > Cardinality(Given))
        => /\ pc = "ready"
           /\ Range(sorted) = Given
           /\ Len(sorted) = Cardinality(Given)

\* C21: keep_only and topo_sort accept indices at or beyond the length of the
\* storage: the call returns, keep_only leaves the length of the storage as
\* it is, and topo_sort treats such an index as a node without edges (an
\* orphan from the start) and returns it once.
C21_AbsentIndicesAccepted ==
    /\ []((op \in {"keep_only", "topo_sort"} /\ pc # "loop"
              /\ \E ix \in Given : ix >= Len(nodes))
            => /\ pc = "ready"
               /\ op = "topo_sort"
                     => \A ix \in Given :
                            ix >= Len(nodes) => Count(sorted, ix) = 1)
    /\ []((op = "topo_sort" /\ pc = "loop")
            => \A ix \in Given :
                   ix >= Len(nodes)
                       => /\ work[ix + 1].ins = <<>> /\ work[ix + 1].out = <<>>
                          /\ ix \notin non_orphans
                          /\ Count(sorted, ix) = IF ix \in orphans THEN 0 ELSE 1)
    /\ [][op' = "keep_only" => Len(nodes') = Len(nodes)]_vars

\* C22: a call of unchecked_keep_only or unchecked_topo_sort with a slice that
\* is not sorted in descending order does not panic.
C22_UncheckedNoPanic ==
    (/\ op \in {"unchecked_keep_only", "unchecked_topo_sort"}
     /\ \E i, j \in 1..Len(ixes) : i < j /\ ixes[i] < ixes[j])
        => pc # "panic"

\* The stored intervals are non-empty, ascending, and neither overlap nor touch.
Merged(v) ==
    /\ \A i \in 1..Len(v) : check_valid(v[i])
    /\ \A i \in 1..(Len(v) - 1) : v[i].end < v[i + 1].start

\* A call of the IntervalTree has returned.
TreeReturned == pc = "ready" /\ op \in {"insert", "take_first_item", "take_last_item"}

\* The values the stored intervals hold.
Covered(v) == UNION {v[i].start .. (v[i].end - 1) : i \in 1..Len(v)}

\* The sum of the lengths of the stored intervals.
RECURSIVE Lengths(_)
Lengths(v) ==
    IF v = <<>> THEN 0 ELSE (Head(v).end - Head(v).start) + Lengths(Tail(v))

C24_BehavesAsSet ==
    /\ [](TreeReturned => Covered(vec) = held)
    /\ [][op' \in {"take_first_item", "take_last_item"}
             => /\ pc' = "ready"
                /\ held # {} /\ op' = "take_first_item"
                       => out' = Some(SmallestOf(held))
                /\ held # {} /\ op' = "take_last_item"
                       => out' = Some(LargestOf(held))
                /\ held = {}
                       => out' = None /\ vec' = vec /\ item_count' = item_count]_vars

\* C25: item_count equals the number of distinct values held, which is the sum
\* of the lengths of the stored intervals; inserting a value that is already
\* contained changes neither the intervals nor item_count.
C25_ItemCount ==
    /\ [](TreeReturned => item_count = Cardinality(held) /\ item_count = Lengths(vec))
    /\ [][(op' = "insert" /\ held' = held)
             => pc' = "ready" /\ vec' = vec /\ item_count' = item_count]_vars

\* C30: the BufferModel passes every submitted entry on to `next` once and in
\* the order of submission: an entry submitted while auto_flush is off is held
\* and not passed on; flush and flush_and_enable_auto_flush pass on all held
\* entries and empty the buffer; after flush_and_enable_auto_flush auto_flush
\* stays on and every later entry is passed on at once, after those held.
C30_BufferDelivers ==
    /\ [](next \o buffer = submitted)
    /\ [](auto_flush => buffer = <<>>)
    /\ [][(op' = "submit" /\ submitted' # submitted)
             => IF auto_flush
                THEN next' = submitted' /\ buffer' = <<>>
                ELSE next' = next /\ buffer' = Append(buffer, submitted'[Len(submitted')])]_vars
    /\ [][op' \in {"flush", "flush_and_enable_auto_flush"}
             => next' = submitted /\ buffer' = <<>>]_vars
    /\ [][op' = "flush_and_enable_auto_flush" => auto_flush']_vars
    /\ [][auto_flush => auto_flush']_vars

\* Entries were held, passed on by flush_and_enable_auto_flush, and a later
\* entry was passed on at once.
C30_Witness ==
    /\ op = "submit" /\ auto_flush
    /\ Len(next) >= 3 /\ next = submitted
    /\ next[1] # next[2]

\* A topo_sort call is in its loop, or has left it.
Sorting == op = "topo_sort" /\ pc \in {"loop", "ready"}

\* The indices emitted so far.
Emitted == Range(sorted)

\* C26: during topo_sort every index of S is, at every step of the loop, in
\* exactly one of the orphan set, the non-orphan set and the emitted output;
\* a step moves an index only from non-orphan to orphan or from orphan to
\* emitted, and an emitted index stays emitted.
C26_ThreeStates ==
    /\ [](Sorting
            => \A ix \in Given :
                   /\ Cardinality({k \in 1..3 : \/ k = 1 /\ ix \in orphans
                                                \/ k = 2 /\ ix \in non_orphans
                                                \/ k = 3 /\ ix \in Emitted}) = 1
                   /\ Count(sorted, ix) <= 1)
    /\ [][(op = "topo_sort" /\ pc = "loop")
             => \A ix \in Given :
                    /\ ix \in non_orphans => ix \in non_orphans' \cup orphans'
                    /\ ix \in orphans => ix \in orphans' \cup Emitted'
                    /\ ix \in Emitted => ix \in Emitted']_vars

\* The loop is running with indices in each of the three states.
C26_Witness ==
    /\ op = "topo_sort" /\ pc = "loop"
    /\ orphans # {} /\ non_orphans # {} /\ sorted # <<>>

C28_PromotionMeansCycle ==
    /\ [][\A ix \in Given :
            Promotes(ix)
                => \A j \in Given \ Emitted :
                       \E e \in EdgesWithin(nodes, Given) :
                           e[2] = j /\ e[1] \notin Emitted]_vars
    /\ [][(op = "topo_sort" /\ Acyclic(EdgesWithin(nodes, Given), Given))
             => \A ix \in Given : ~Promotes(ix)]_vars

\* The sequences that hold each index of S exactly once.
Orders(S) ==
    {p \in [1..Cardinality(S) -> S] : \A i, j \in 1..Cardinality(S) : p[i] = p[j] => i = j}

\* The topological orders of S under the edges E.
TopoOrders(E, S) ==
    {p \in Orders(S) : \A e \in E : Before(p, e[1], e[2])}

\* p comes before q in the lexicographic order, or is q.
LexLeq(p, q) ==
    \/ p = q
    \/ \E k \in 1..Len(p) :
           /\ k <= Len(q) /\ p[k] < q[k]
           /\ \A i \in 1..(k - 1) : p[i] = q[i]

\* Every recorded edge of the graph ns has both endpoints in S.
AllEdgesWithin(ns, S) ==
    \A i \in 1..Len(ns) :
        /\ (i - 1) \notin S => ns[i] = EmptyNode
        /\ Range(ns[i].ins) \cup Range(ns[i].out) \subseteq S

=============================================================================
